---- MODULE Spec2Model ----
(***************************************************************************)
(* A model of hw1.py: bank accounts (BankAccount), the transfer between    *)
(* two accounts, and the credit-card / PayPal payments (Payment,           *)
(* CreditCardPayment, PayPalPayment) that verify a credential and then     *)
(* delegate to transfer.                                                    *)
(*                                                                         *)
(* Strings are sequences of one-character strings, so that the format      *)
(* rules (isdigit, len, "in") are computed and not assumed.  Numbers are   *)
(* integers: every amount and balance of the model is a whole number, on   *)
(* which Python's arithmetic is exact.                                      *)
(***************************************************************************)
EXTENDS Integers, Sequences, FiniteSets, TLC

\* ---------------------------------------------------------------- bounds
MaxBalance == 2      \* balances given to the constructor and to the setter: -1..MaxBalance
MaxAmount == 2       \* amounts of transfers and payments: -1..MaxAmount
MaxHistory == 1      \* a transfer is explored while both histories stay within MaxHistory
MaxPayments == 2     \* payments are constructed while the counter stays within MaxPayments

\* ---------------------------------------------------------------- values
\* Python's None (a stored credential that was never given, a dict miss).
None == <<"None">>

Digits == {"0", "1", "2", "3", "4", "5", "6", "7", "8", "9"}

\* the card of account A001 in main()
Card1 == <<"1","2","3","4","5","6","7","8","9","0","1","2","3","4","5","6">>
\* the card of account A002 in main()
Card2 == <<"1","1","1","1","2","2","2","2","3","3","3","3","4","4","4","4">>
\* fifteen digits
CardShort == <<"1","2","3","4","5","6","7","8","9","0","1","2","3","4","5">>
\* sixteen characters, one of them a letter
CardAlpha == <<"1","2","3","4","5","6","7","8","9","0","1","2","3","4","5","x">>

\* user1@example.com , user2@example.com , wrong@example.com , "invalid" , and
\* an address without a dot
Email1 == <<"u","s","e","r","1","@","e","x","a","m","p","l","e",".","c","o","m">>
Email2 == <<"u","s","e","r","2","@","e","x","a","m","p","l","e",".","c","o","m">>
EmailWrong == <<"w","r","o","n","g","@","e","x","a","m","p","l","e",".","c","o","m">>
EmailInvalid == <<"i","n","v","a","l","i","d">>
EmailNoDot == <<"u","@","e">>

\* what the setters are given, and what the payments carry
\* further strings for the validators: 17 digits, the empty string, a "." without
\* an "@", a "." before the "@"
Card17 == <<"1","2","3","4","5","6","7","8","9","0","1","2","3","4","5","6","7">>
Empty == <<>>
EmailNoAt == <<"a",".","b">>
EmailDotFirst == <<".","@">>

CardInputs == {Card1, CardShort, CardAlpha}
EmailInputs == {Email1, EmailInvalid, EmailNoDot}
CardCredentials == {Card1, Card2, CardAlpha}
EmailCredentials == {Email1, EmailWrong, EmailInvalid}

\* the keys of the accounts dict, and one identifier that is not a key
AccountIds == {"A001", "A002"}
UnknownId == "A003"
Ids == AccountIds \cup {UnknownId}

\* the balances the accounts are created with, and those assigned later
InitBalances == {0, MaxBalance}
Balances == {-1, 0, MaxBalance}
\* the amounts of transfers and payments
Amounts == {-1} \cup 1..MaxAmount
\* (from, to) of a payment: both directions, a payment to oneself, and an
\* unknown source or destination
Routes == {<<"A001", "A002">>, <<"A002", "A001">>, <<"A001", "A001">>,
           <<UnknownId, "A002">>, <<"A001", UnknownId>>}

VARIABLES
    accounts,        \* the dict id -> BankAccount (fields _id, _balance, _credit_card_number, _paypal_email, _history)
    total_payments,  \* Payment._total_payments
    payment,         \* the payment object the caller holds (NoPayment before the first construction)
    last,            \* the last call: its name, arguments, result and whether it reached transfer
    log              \* what main() has handed to log_payment: (payment, success), in order

vars == <<accounts, total_payments, payment, last, log>>

\* ---------------------------------------------------------------- pure functions
\* str.isdigit() on ASCII text: non-empty and every character a digit
isdigit(s) == Len(s) > 0 /\ \A i \in 1..Len(s) : s[i] \in Digits

\* c in s
Contains(c, s) == \E i \in 1..Len(s) : s[i] = c

is_valid_card_format_len_only(card_number) == Len(card_number) = 16

\* IVerifyCreditCard.is_valid_card_format(card_number)
is_valid_card_format(card_number) == isdigit(card_number) /\ Len(card_number) = 16

\* a rule that is content with one of the two characters
is_valid_email_format_either(email) == Contains("@", email) \/ Contains(".", email)

is_valid_email_format(email) == Contains("@", email) /\ Contains(".", email)

\* BankAccount.__init__: the fields are stored as given, without the setters
BankAccount(id, balance, credit_card_number, paypal_email) ==
    [_id |-> id, _balance |-> balance, _credit_card_number |-> credit_card_number,
     _paypal_email |-> paypal_email, _history |-> <<>>]

\* accounts.get(id): a reference to the account object (its key), or NoneRef
NoneRef == "None"

Get(accts, id) == IF id \in DOMAIN accts THEN id ELSE NoneRef

\* a verification that lets an account without a card pass
verify_credit_card_none_passes(acc, card_number) ==
    acc._credit_card_number = None \/ acc._credit_card_number = card_number

verify_credit_card(acc, card_number) == acc._credit_card_number = card_number

\* a verification that accepts any email once the account stores one
verify_paypal_email_any_stored(acc, email) == acc._paypal_email # None

verify_paypal_email(acc, email) == acc._paypal_email = email

\* what a call gives back: the result ("True", "False", the error raised, or
\* "None" of a call that returns nothing), the accounts after it, and whether
\* BankAccount.transfer was entered
Outcome(result, accts, called) ==
    [result |-> result, accounts |-> accts, transfer_called |-> called]

\* a history that keeps only its newest entry
add_history_replaces(accts, acc, desc) ==
    [accts EXCEPT ![acc]._history = <<desc>>]

\* self.add_history(desc) of account acc
add_history(accts, acc, desc) ==
    [accts EXCEPT ![acc]._history = Append(@, desc)]

\* a transfer that debits the source and forgets to credit the destination
MoveFunds_no_credit(accts, self, amount, to_account) ==
    LET debited == [accts EXCEPT ![self]._balance = @ - amount]
        sent == add_history(debited, self, <<"send", amount, debited[to_account]._id>>)
    IN  add_history(sent, to_account, <<"reciev", amount, sent[self]._id>>)

\* a history list that all accounts share (a class attribute instead of the
\* instance attribute of line 42)
MoveFunds_shared_history(accts, self, amount, to_account) ==
    LET debited == [accts EXCEPT ![self]._balance = @ - amount]
        credited == [debited EXCEPT ![to_account]._balance = @ + amount]
    IN  [a \in DOMAIN credited |->
            [credited[a] EXCEPT !._history =
                @ \o << <<"send", amount, credited[to_account]._id>>,
                         <<"reciev", amount, credited[self]._id>> >>]]

\* lines 91-94: debit, credit, the two history entries
MoveFunds(accts, self, amount, to_account) ==
    LET debited == [accts EXCEPT ![self]._balance = @ - amount]
        credited == [debited EXCEPT ![to_account]._balance = @ + amount]
        sent == add_history(credited, self, <<"send", amount, credited[to_account]._id>>)
    IN  add_history(sent, to_account, <<"reciev", amount, sent[self]._id>>)

\* a transfer without the check of lines 87-89
transfer_no_self_check(accts, self, amount, to_account) ==
    IF to_account = NoneRef THEN Outcome("AttributeError", accts, TRUE)
    ELSE IF accts[self]._balance >= amount
         THEN Outcome("True", MoveFunds(accts, self, amount, to_account), TRUE)
         ELSE Outcome("False", accts, TRUE)

\* a transfer that asks for more than the amount (> where the code has >=)
transfer_strict(accts, self, amount, to_account) ==
    IF to_account = NoneRef THEN Outcome("AttributeError", accts, TRUE)
    ELSE IF accts[self]._id = accts[to_account]._id THEN Outcome("False", accts, TRUE)
    ELSE IF accts[self]._balance > amount
         THEN Outcome("True", MoveFunds(accts, self, amount, to_account), TRUE)
         ELSE Outcome("False", accts, TRUE)

\* a transfer that debits first and checks the funds afterwards
transfer_debit_before_check(accts, self, amount, to_account) ==
    IF to_account = NoneRef THEN Outcome("AttributeError", accts, TRUE)
    ELSE IF accts[self]._id = accts[to_account]._id THEN Outcome("False", accts, TRUE)
    ELSE LET debited == [accts EXCEPT ![self]._balance = @ - amount]
         IN  IF debited[self]._balance >= 0
             THEN Outcome("True", MoveFunds(accts, self, amount, to_account), TRUE)
             ELSE Outcome("False", debited, TRUE)

\* a transfer that lets the source overdraw
transfer_overdraft(accts, self, amount, to_account) ==
    IF to_account = NoneRef THEN Outcome("AttributeError", accts, TRUE)
    ELSE IF accts[self]._id = accts[to_account]._id THEN Outcome("False", accts, TRUE)
    ELSE Outcome("True", MoveFunds(accts, self, amount, to_account), TRUE)

\* BankAccount.transfer(self, amount, to_account); to_account may be NoneRef,
\* and then to_account._id raises AttributeError
transfer(accts, self, amount, to_account) ==
    IF to_account = NoneRef THEN Outcome("AttributeError", accts, TRUE)
    ELSE IF accts[self]._id = accts[to_account]._id THEN Outcome("False", accts, TRUE)
    ELSE IF accts[self]._balance >= amount
         THEN Outcome("True", MoveFunds(accts, self, amount, to_account), TRUE)
         ELSE Outcome("False", accts, TRUE)

\* a process that trusts any well-formed card
CreditCardPayment_process_no_verify(p, accts) ==
    LET from_acc == Get(accts, p.from_account_id)
        to_acc == Get(accts, p.to_account_id)
    IN  IF ~is_valid_card_format(p.card_number) THEN Outcome("False", accts, FALSE)
        ELSE IF from_acc = NoneRef THEN Outcome("AttributeError", accts, FALSE)
        ELSE transfer(accts, from_acc, p.amount, to_acc)

\* CreditCardPayment.process(self, accounts)
CreditCardPayment_process(p, accts) ==
    LET from_acc == Get(accts, p.from_account_id)
        to_acc == Get(accts, p.to_account_id)
    IN  IF ~is_valid_card_format(p.card_number) THEN Outcome("False", accts, FALSE)
        ELSE IF from_acc = NoneRef THEN Outcome("AttributeError", accts, FALSE)
        ELSE IF ~verify_credit_card(accts[from_acc], p.card_number)
             THEN Outcome("False", accts, FALSE)
             ELSE transfer(accts, from_acc, p.amount, to_acc)

\* a process that asks the source account before it checks the format
PayPalPayment_process_verify_first(p, accts) ==
    LET from_acc == Get(accts, p.from_account_id)
        to_acc == Get(accts, p.to_account_id)
    IN  IF from_acc = NoneRef THEN Outcome("AttributeError", accts, FALSE)
        ELSE IF ~verify_paypal_email(accts[from_acc], p.email)
             THEN Outcome("False", accts, FALSE)
        ELSE IF ~is_valid_email_format(p.email) THEN Outcome("False", accts, FALSE)
             ELSE transfer(accts, from_acc, p.amount, to_acc)

\* PayPalPayment.process(self, accounts)
PayPalPayment_process(p, accts) ==
    LET from_acc == Get(accts, p.from_account_id)
        to_acc == Get(accts, p.to_account_id)
    IN  IF ~is_valid_email_format(p.email) THEN Outcome("False", accts, FALSE)
        ELSE IF from_acc = NoneRef THEN Outcome("AttributeError", accts, FALSE)
        ELSE IF ~verify_paypal_email(accts[from_acc], p.email)
             THEN Outcome("False", accts, FALSE)
             ELSE transfer(accts, from_acc, p.amount, to_acc)

\* a setter that refuses 0 as well
set_balance_positive_only(accts, acc, value) ==
    IF value <= 0 THEN Outcome("ValueError", accts, FALSE)
    ELSE Outcome("None", [accts EXCEPT ![acc]._balance = value], FALSE)

\* the balance setter
set_balance(accts, acc, value) ==
    IF value < 0 THEN Outcome("ValueError", accts, FALSE)
    ELSE Outcome("None", [accts EXCEPT ![acc]._balance = value], FALSE)

\* the credit_card_number setter
set_credit_card_number(accts, acc, number) ==
    IF ~is_valid_card_format(number) THEN Outcome("ValueError", accts, FALSE)
    ELSE Outcome("None", [accts EXCEPT ![acc]._credit_card_number = number], FALSE)

\* the paypal_email setter
set_paypal_email(accts, acc, email) ==
    IF ~is_valid_email_format(email) THEN Outcome("ValueError", accts, FALSE)
    ELSE Outcome("None", [accts EXCEPT ![acc]._paypal_email = email], FALSE)

\* a constructor that does not count
Payment_init_no_increment(count) == count

\* Payment.__init__: the counter after one more construction
Payment_init(count) == count + 1

\* the payment objects
CreditCardPayment(amount, from_id, to_id, card_number) ==
    [kind |-> "CreditCardPayment", amount |-> amount, from_account_id |-> from_id,
     to_account_id |-> to_id, card_number |-> card_number]

PayPalPayment(amount, from_id, to_id, email) ==
    [kind |-> "PayPalPayment", amount |-> amount, from_account_id |-> from_id,
     to_account_id |-> to_id, email |-> email]

NoPayment == [kind |-> "None"]

\* the credential a payment carries
SuppliedCredential(p) ==
    IF p.kind = "CreditCardPayment" THEN p.card_number ELSE p.email

\* ---------------------------------------------------------------- the calls
Call(op, acc, to, num, str, out) ==
    [op |-> op, acc |-> acc, to |-> to, num |-> num, str |-> str,
     result |-> out.result, transfer_called |-> out.transfer_called]

\* the history bound: a call that changes the accounts is explored while every
\* history is shorter than n
WithinDepth(accts, n) ==
    accts # accounts => \A a \in DOMAIN accounts : Len(accounts[a]._history) < n

WithinHistory(accts) == WithinDepth(accts, MaxHistory)

\* the accounts dict of the caller, as main() builds it: A002 with both
\* credentials, A001 with or without each of its own; the balances vary
Init ==
    /\ \E b1, b2 \in InitBalances, c1 \in {None, Card1}, e1 \in {None, Email1} :
          accounts = [a \in AccountIds |->
                        IF a = "A001" THEN BankAccount(a, b1, c1, e1)
                                      ELSE BankAccount(a, b2, Card2, Email2)]
    /\ total_payments = 0
    /\ payment = NoPayment
    /\ last = Call("init", NoneRef, NoneRef, 0, None, Outcome("None", accounts, FALSE))
    /\ log = <<>>

\* acc.balance = value
SetBalance(acc, value) ==
    LET out == set_balance(accounts, acc, value)
    IN  /\ accounts' = out.accounts
        /\ last' = Call("set_balance", acc, NoneRef, value, None, out)
        /\ UNCHANGED <<total_payments, payment, log>>

\* acc.credit_card_number = number
SetCreditCardNumber(acc, number) ==
    LET out == set_credit_card_number(accounts, acc, number)
    IN  /\ accounts' = out.accounts
        /\ last' = Call("set_credit_card_number", acc, NoneRef, 0, number, out)
        /\ UNCHANGED <<total_payments, payment, log>>

\* acc.paypal_email = email
SetPaypalEmail(acc, email) ==
    LET out == set_paypal_email(accounts, acc, email)
    IN  /\ accounts' = out.accounts
        /\ last' = Call("set_paypal_email", acc, NoneRef, 0, email, out)
        /\ UNCHANGED <<total_payments, payment, log>>

\* a direct call self.transfer(amount, to_account) between two accounts of the dict
TransferCall(self, amount, to_account) ==
    LET out == transfer(accounts, self, amount, to_account)
    IN  /\ accounts' = out.accounts
        /\ last' = Call("transfer", self, to_account, amount, None, out)
        /\ UNCHANGED <<total_payments, payment, log>>

Transfer(self, amount, to_account) ==
    /\ WithinHistory(transfer(accounts, self, amount, to_account).accounts)
    /\ TransferCall(self, amount, to_account)

\* payment = CreditCardPayment(amount, from_id, to_id, card_number)
NewCreditCardPayment(amount, from_id, to_id, card_number) ==
    /\ total_payments < MaxPayments
    /\ total_payments' = Payment_init(total_payments)
    /\ payment' = CreditCardPayment(amount, from_id, to_id, card_number)
    /\ last' = Call("CreditCardPayment", from_id, to_id, amount, card_number,
                    Outcome("None", accounts, FALSE))
    /\ UNCHANGED <<accounts, log>>

\* payment = PayPalPayment(amount, from_id, to_id, email)
NewPayPalPayment(amount, from_id, to_id, email) ==
    /\ total_payments < MaxPayments
    /\ total_payments' = Payment_init(total_payments)
    /\ payment' = PayPalPayment(amount, from_id, to_id, email)
    /\ last' = Call("PayPalPayment", from_id, to_id, amount, email,
                    Outcome("None", accounts, FALSE))
    /\ UNCHANGED <<accounts, log>>

\* p.process(accounts), by the class of p
process(p, accts) ==
    IF p.kind = "CreditCardPayment" THEN CreditCardPayment_process(p, accts)
    ELSE PayPalPayment_process(p, accts)

\* the call payment.process(accounts) on the payment the caller holds
ProcessCall ==
    LET out == process(payment, accounts)
    IN  /\ accounts' = out.accounts
        /\ last' = Call("process", payment.from_account_id, payment.to_account_id,
                        payment.amount,
                        IF payment.kind = "CreditCardPayment" THEN payment.card_number
                        ELSE payment.email, out)
        /\ UNCHANGED <<total_payments, payment, log>>

\* payment.process(accounts) on a card payment
ProcessCreditCard ==
    /\ payment.kind = "CreditCardPayment"
    /\ WithinHistory(process(payment, accounts).accounts)
    /\ ProcessCall

\* payment.process(accounts) on a PayPal payment
ProcessPayPal ==
    /\ payment.kind = "PayPalPayment"
    /\ WithinHistory(process(payment, accounts).accounts)
    /\ ProcessCall

\* acc.verify_credit_card(card_number)
VerifyCreditCard(acc, card_number) ==
    /\ last' = Call("verify_credit_card", acc, NoneRef, 0, card_number,
                    Outcome(IF verify_credit_card(accounts[acc], card_number)
                            THEN "True" ELSE "False", accounts, FALSE))
    /\ UNCHANGED <<accounts, total_payments, payment, log>>

\* acc.verify_paypal_email(email)
VerifyPaypalEmail(acc, email) ==
    /\ last' = Call("verify_paypal_email", acc, NoneRef, 0, email,
                    Outcome(IF verify_paypal_email(accounts[acc], email)
                            THEN "True" ELSE "False", accounts, FALSE))
    /\ UNCHANGED <<accounts, total_payments, payment, log>>

\* Payment.get_total_payments(): the count is handed back in the field num
get_total_payments(count) == count

GetTotalPayments ==
    /\ last' = Call("get_total_payments", NoneRef, NoneRef,
                    get_total_payments(total_payments), None,
                    Outcome("None", accounts, FALSE))
    /\ UNCHANGED <<accounts, total_payments, payment, log>>

\* accounts[id] = BankAccount(id, balance, credit_card_number, paypal_email): the
\* caller builds an account and puts it in the dict
NewBankAccount(id, balance, credit_card_number, paypal_email) ==
    /\ accounts' = [accounts EXCEPT
                        ![id] = BankAccount(id, balance, credit_card_number, paypal_email)]
    /\ last' = Call("BankAccount", id, NoneRef, balance, credit_card_number,
                    Outcome("None", accounts', FALSE))
    /\ UNCHANGED <<total_payments, payment, log>>

\* IVerifyCreditCard.is_valid_card_format(card_number), called on the class
IsValidCardFormat(card_number) ==
    /\ last' = Call("is_valid_card_format", NoneRef, NoneRef, 0, card_number,
                    Outcome(IF is_valid_card_format(card_number)
                            THEN "True" ELSE "False", accounts, FALSE))
    /\ UNCHANGED <<accounts, total_payments, payment, log>>

\* IVerifyPayPal.is_valid_email_format(email), called on the class
IsValidEmailFormat(email) ==
    /\ last' = Call("is_valid_email_format", NoneRef, NoneRef, 0, email,
                    Outcome(IF is_valid_email_format(email)
                            THEN "True" ELSE "False", accounts, FALSE))
    /\ UNCHANGED <<accounts, total_payments, payment, log>>

\* ---------------------------------------------------------------- specifications
\* Every operation of the module, on a narrow choice of arguments.
Next ==
    \/ \E acc \in AccountIds, value \in {-1, MaxBalance} : SetBalance(acc, value)
    \/ \E number \in {Card2, CardShort} : SetCreditCardNumber("A001", number)
    \/ \E email \in {Email2, EmailNoDot} : SetPaypalEmail("A001", email)
    \/ \E self, to_account \in AccountIds : Transfer(self, MaxAmount, to_account)
    \/ \E amount \in {1, MaxAmount}, r \in {<<"A001", "A002">>, <<"A001", "A001">>},
          card_number \in {Card1, CardAlpha} :
          NewCreditCardPayment(amount, r[1], r[2], card_number)
    \/ \E amount \in {1, MaxAmount}, r \in {<<"A001", "A002">>, <<"A001", "A001">>},
          email \in {Email1, EmailInvalid} :
          NewPayPalPayment(amount, r[1], r[2], email)
    \/ ProcessCreditCard
    \/ ProcessPayPal
    \/ VerifyCreditCard("A001", Card1)
    \/ VerifyPaypalEmail("A001", Email1)
    \/ GetTotalPayments

Spec == Init /\ [][Next]_vars

\* The account ledger on its own: the setters and the direct transfers.
NextLedger ==
    \/ \E acc \in AccountIds, value \in Balances : SetBalance(acc, value)
    \/ \E acc \in AccountIds, number \in CardInputs : SetCreditCardNumber(acc, number)
    \/ \E acc \in AccountIds, email \in EmailInputs : SetPaypalEmail(acc, email)
    \/ \E self, to_account \in AccountIds, amount \in Amounts :
          Transfer(self, amount, to_account)

SpecLedger == Init /\ [][NextLedger]_vars

\* The payments in front of the ledger: construction, process, and the direct
\* transfers they compete with.
NextPay ==
    \/ \E amount \in Amounts, r \in Routes, card_number \in CardCredentials :
          NewCreditCardPayment(amount, r[1], r[2], card_number)
    \/ \E amount \in Amounts, r \in Routes, email \in EmailCredentials :
          NewPayPalPayment(amount, r[1], r[2], email)
    \/ ProcessCreditCard
    \/ ProcessPayPal

SpecPay == Init /\ [][NextPay]_vars

\* The two validators called on their own, between setter calls and payments.
FormatCards == CardInputs \cup {Card2, Card17, Empty}
FormatEmails == EmailInputs \cup {EmailNoAt, EmailDotFirst, Empty}

NextFormat ==
    \/ \E card_number \in FormatCards : IsValidCardFormat(card_number)
    \/ \E email \in FormatEmails : IsValidEmailFormat(email)
    \/ \E number \in {Card2, CardAlpha} : SetCreditCardNumber("A001", number)
    \/ \E email \in {Email2, EmailNoDot} : SetPaypalEmail("A001", email)
    \/ \E card_number \in {Card2, CardAlpha} :
          NewCreditCardPayment(1, "A002", "A001", card_number)
    \/ \E email \in {Email2, EmailInvalid} : NewPayPalPayment(1, "A002", "A001", email)
    \/ ProcessCreditCard
    \/ ProcessPayPal

SpecFormat == Init /\ [][NextFormat]_vars

\* main(): its two accounts, its five payments, its loop. The loop is explored
\* over the payments in any order, each processed once; main's own order is the
\* one in which the log follows MainPayments.
MainPayments ==
    << CreditCardPayment(200, "A001", "A002", Card1),
       PayPalPayment(300, "A001", "A002", EmailWrong),
       CreditCardPayment(900, "A002", "A001", Card2),
       CreditCardPayment(100, "A001", "A001", Card1),
       PayPalPayment(50, "A001", "A002", EmailInvalid) >>

InitMain ==
    /\ accounts = [a \in AccountIds |->
                     IF a = "A001" THEN BankAccount(a, 1000, Card1, Email1)
                                   ELSE BankAccount(a, 500, Card2, Email2)]
    /\ total_payments = 0
    /\ payment = NoPayment
    /\ last = Call("init", NoneRef, NoneRef, 0, None, Outcome("None", accounts, FALSE))
    /\ log = <<>>

\* log_payment(payment, success): the line it prints, kept as a pair
log_payment(lg, p, success) == Append(lg, <<p, success>>)

\* the next element of the list literal is constructed
MainNewPayment ==
    /\ total_payments < Len(MainPayments)
    /\ total_payments' = Payment_init(total_payments)
    /\ LET p == MainPayments[total_payments + 1]
       IN  last' = Call(p.kind, p.from_account_id, p.to_account_id, p.amount,
                        SuppliedCredential(p), Outcome("None", accounts, FALSE))
    /\ UNCHANGED <<accounts, payment, log>>

\* one turn of the loop: process the payment, log its result
MainLoop(i) ==
    /\ total_payments = Len(MainPayments)
    /\ \A k \in 1..Len(log) : log[k][1] # MainPayments[i]
    /\ LET p == MainPayments[i]
           out == process(p, accounts)
       IN  /\ payment' = p
           /\ accounts' = out.accounts
           /\ last' = Call("process", p.from_account_id, p.to_account_id, p.amount,
                            SuppliedCredential(p), out)
           /\ log' = log_payment(log, p, out.result)
    /\ UNCHANGED total_payments

NextMain ==
    \/ MainNewPayment
    \/ \E i \in 1..Len(MainPayments) : MainLoop(i)

SpecMain == InitMain /\ [][NextMain]_vars

\* The construction of accounts, with any arguments, and the setters.
NextCreate ==
    \/ \E id \in AccountIds, balance \in Balances,
          credit_card_number \in {None} \cup CardInputs,
          paypal_email \in {None} \cup EmailInputs :
          NewBankAccount(id, balance, credit_card_number, paypal_email)
    \/ \E acc \in AccountIds, value \in Balances : SetBalance(acc, value)
    \/ \E acc \in AccountIds, number \in CardInputs : SetCreditCardNumber(acc, number)
    \/ \E acc \in AccountIds, email \in EmailInputs : SetPaypalEmail(acc, email)

SpecCreate == Init /\ [][NextCreate]_vars

\* Transfers and payments that follow one another: the histories grow to
\* MaxHistory + 1 entries, and the dict holds a third account that no transfer
\* and no payment names.
BystanderId == "A004"

HistoryDepth == MaxHistory + 1

InitHistory ==
    /\ \E b1, b2 \in InitBalances, c1 \in {None, Card1} :
          accounts = [a \in AccountIds \cup {BystanderId} |->
                        IF a = "A001" THEN BankAccount(a, b1, c1, Email1)
                        ELSE IF a = "A002" THEN BankAccount(a, b2, Card2, Email2)
                        ELSE BankAccount(a, MaxBalance, Card1, None)]
    /\ total_payments = 0
    /\ payment = NoPayment
    /\ last = Call("init", NoneRef, NoneRef, 0, None, Outcome("None", accounts, FALSE))
    /\ log = <<>>

NextHistory ==
    \/ \E self, to_account \in AccountIds, amount \in {1, MaxAmount} :
          /\ WithinDepth(transfer(accounts, self, amount, to_account).accounts, HistoryDepth)
          /\ TransferCall(self, amount, to_account)
    \/ \E card_number \in {Card1, Card2},
          r \in {<<"A001", "A002">>, <<"A002", "A001">>, <<"A001", UnknownId>>} :
          NewCreditCardPayment(1, r[1], r[2], card_number)
    \/ \E email \in {Email1, EmailWrong} : NewPayPalPayment(1, "A001", "A002", email)
    \/ /\ payment # NoPayment
       /\ WithinDepth(process(payment, accounts).accounts, HistoryDepth)
       /\ ProcessCall

SpecHistory == InitHistory /\ [][NextHistory]_vars

\* ---------------------------------------------------------------- claims
\* C1: every account created with a non-negative balance has a balance >= 0 in
\* every reachable state, whatever numbers the setter, the transfers and the
\* payments are given.  (Init creates every account with a balance >= 0.)
C1_BalanceNeverNegative ==
    \A a \in AccountIds : accounts[a]._balance >= 0

\* C2: a transfer call that returns False leaves the balances and the histories
\* of both accounts (the whole accounts dict) as they were before the call.
C2_FailedTransferChangesNothing ==
    [][(last'.transfer_called /\ last'.result = "False") => accounts' = accounts]_vars

\* a direct transfer has just failed for lack of funds, between two different
\* accounts of which the source already has a history entry
C2_Witness ==
    /\ last.op = "transfer" /\ last.result = "False"
    /\ last.acc # last.to
    /\ accounts[last.acc]._balance < last.num
    /\ Len(accounts[last.acc]._history) > 0

\* C3: a transfer of amount a from X to a different Y that returns True debits
\* exactly a from X and credits exactly a to Y, so the sum of the two balances is
\* kept; a transfer call changes both balances in this way or changes nothing.
C3_TransferConserves ==
    [][last'.op = "transfer" =>
        LET X == last'.acc
            Y == last'.to
            a == last'.num
        IN  IF last'.result = "True"
            THEN /\ X # Y
                 /\ accounts'[X]._balance = accounts[X]._balance - a
                 /\ accounts'[Y]._balance = accounts[Y]._balance + a
                 /\ accounts'[X]._balance + accounts'[Y]._balance
                      = accounts[X]._balance + accounts[Y]._balance
            ELSE accounts' = accounts]_vars

\* a direct transfer of a positive amount has just succeeded
C3_Witness ==
    /\ last.op = "transfer" /\ last.result = "True"
    /\ last.num > 0
    /\ accounts[last.to]._balance >= last.num

\* the credential a payment carries, the credential of that kind stored on an
\* account, and the format rule of the payment's channel
StoredCredential(acc, p) ==
    IF p.kind = "CreditCardPayment" THEN acc._credit_card_number ELSE acc._paypal_email

\* the two format rules as the claims word them
SixteenDigits(s) == Len(s) = 16 /\ \A i \in 1..Len(s) : s[i] \in Digits

HasAtAndDot(s) == (\E i \in 1..Len(s) : s[i] = "@") /\ (\E j \in 1..Len(s) : s[j] = ".")

WellFormed(p) ==
    IF p.kind = "CreditCardPayment" THEN SixteenDigits(p.card_number)
    ELSE HasAtAndDot(p.email)

Resolves(id) == id \in DOMAIN accounts

\* C4: for a card or wallet payment whose two identifiers resolve, process
\* returns True exactly when the credential is well-formed, equals the one stored
\* on the source, source and destination differ and the source balance is >= the
\* amount (a payment of the whole balance leaves the source at 0); transfer is
\* entered exactly when both credential checks pass, and its result is returned
\* unchanged.
C4_ProcessResult ==
    [][(last'.op = "process" /\ Resolves(payment.from_account_id)
                            /\ Resolves(payment.to_account_id)) =>
        LET from_acc == accounts[payment.from_account_id]
            checks == WellFormed(payment)
                        /\ SuppliedCredential(payment) = StoredCredential(from_acc, payment)
            ledger == transfer(accounts, payment.from_account_id, payment.amount,
                               payment.to_account_id)
        IN  /\ last'.result \in {"True", "False"}
            /\ last'.result = "True" <=>
                    /\ checks
                    /\ payment.from_account_id # payment.to_account_id
                    /\ from_acc._balance >= payment.amount
            /\ last'.transfer_called <=> checks
            /\ last'.transfer_called =>
                    last'.result = ledger.result /\ accounts' = ledger.accounts
            /\ (last'.result = "True" /\ payment.amount = from_acc._balance) =>
                    accounts'[payment.from_account_id]._balance = 0]_vars

\* a payment of the whole (positive) balance of its source has just succeeded
C4_Witness ==
    /\ last.op = "process" /\ last.result = "True"
    /\ last.num > 0
    /\ accounts[last.acc]._balance = 0
    /\ accounts[last.to]._balance >= last.num

\* C5: a payment whose credential fails the format rule of its channel makes
\* process return False without entering transfer and without changing any
\* account, also when the source or the destination identifier is not a key of
\* the accounts dict or the source stores no credential.
C5_MalformedCredentialRejected ==
    [][(last'.op = "process" /\ ~WellFormed(payment)) =>
        /\ last'.result = "False"
        /\ ~last'.transfer_called
        /\ accounts' = accounts]_vars

\* a payment with a malformed credential from an identifier that is no key of
\* the dict has just been processed
C5_Witness ==
    /\ last.op = "process" /\ last.result = "False"
    /\ ~WellFormed(payment)
    /\ ~Resolves(payment.from_account_id)

\* C6: a payment whose credential is well-formed but differs from the credential
\* of that kind stored on the source account (None included) makes process
\* return False, changes no account and never enters transfer, whatever the
\* amount and the source balance.
C6_MismatchRejected ==
    [][(/\ last'.op = "process"
        /\ Resolves(payment.from_account_id)
        /\ WellFormed(payment)
        /\ SuppliedCredential(payment)
              # StoredCredential(accounts[payment.from_account_id], payment)) =>
        /\ last'.result = "False"
        /\ ~last'.transfer_called
        /\ accounts' = accounts]_vars

\* a well-formed credential has just been refused by a source that stores none,
\* for an amount the source could have paid
C6_Witness ==
    /\ last.op = "process" /\ last.result = "False"
    /\ ~last.transfer_called
    /\ WellFormed(payment)
    /\ Resolves(payment.from_account_id)
    /\ StoredCredential(accounts[payment.from_account_id], payment) = None
    /\ payment.amount > 0
    /\ accounts[payment.from_account_id]._balance >= payment.amount

\* C7: a transfer, or a payment with a valid matching credential, whose source
\* and destination are the same account returns False and leaves the accounts
\* unchanged, for every amount, whether the balance covers it or not.
C7_SelfTransferRejected ==
    [][(last'.transfer_called /\ last'.acc = last'.to) =>
        last'.result = "False" /\ accounts' = accounts]_vars

\* a payment of an amount its source could have paid, with the matching
\* credential, from an account to itself, has just been refused by transfer
C7_Witness ==
    /\ last.op = "process" /\ last.transfer_called
    /\ last.acc = last.to
    /\ last.result = "False"
    /\ last.num > 0
    /\ accounts[last.acc]._balance >= last.num

\* C8: the counter counts the payments constructed: it is 0 exactly while no
\* payment has been constructed, each construction raises it by exactly 1, and no
\* other operation (process, transfer, the setters, the verifications, reading
\* the counter) changes it; so it never decreases.
C8_CounterCountsConstructions ==
    /\ [](total_payments = 0 <=> payment = NoPayment)
    /\ [][/\ total_payments' >= total_payments
          /\ IF last'.op \in {"CreditCardPayment", "PayPalPayment"}
             THEN total_payments' = total_payments + 1
             ELSE total_payments' = total_payments]_vars

\* a second payment has been constructed and the counter was then read as 2,
\* although the payment has not been processed
C8_Witness ==
    /\ last.op = "get_total_payments"
    /\ last.num = 2
    /\ total_payments = 2
    /\ \A a \in AccountIds : accounts[a]._history = <<>>

\* C9: assigning a negative value to a balance raises an error and leaves the
\* account as it was; assigning a value >= 0, 0 included, commits that value and
\* changes nothing else.
C9_BalanceSetter ==
    [][last'.op = "set_balance" =>
        IF last'.num < 0
        THEN last'.result = "ValueError" /\ accounts' = accounts
        ELSE /\ last'.result = "None"
             /\ accounts' = [accounts EXCEPT ![last'.acc]._balance = last'.num]]_vars

\* a negative value has just been refused by an account that keeps its positive
\* balance and its history
C9_Witness ==
    /\ last.op = "set_balance" /\ last.num < 0
    /\ last.result = "ValueError"
    /\ accounts[last.acc]._balance > 0
    /\ Len(accounts[last.acc]._history) > 0

\* C10: assigning a card number that is not exactly 16 digits, or an email
\* without both "@" and ".", raises an error and leaves the account as it was; a
\* conforming value is committed, and nothing but that credential changes.
C10_CredentialSetters ==
    [][/\ last'.op = "set_credit_card_number" =>
            IF SixteenDigits(last'.str)
            THEN /\ last'.result = "None"
                 /\ accounts' =
                      [accounts EXCEPT ![last'.acc]._credit_card_number = last'.str]
            ELSE last'.result = "ValueError" /\ accounts' = accounts
       /\ last'.op = "set_paypal_email" =>
            IF HasAtAndDot(last'.str)
            THEN /\ last'.result = "None"
                 /\ accounts' = [accounts EXCEPT ![last'.acc]._paypal_email = last'.str]
            ELSE last'.result = "ValueError" /\ accounts' = accounts]_vars

\* an email with "@" and without "." has just been refused by an account that
\* keeps the email it had
C10_Witness ==
    /\ last.op = "set_paypal_email" /\ last.result = "ValueError"
    /\ last.str = EmailNoDot
    /\ accounts[last.acc]._paypal_email = Email1

\* C11: in every reachable state every account stores a card number that is
\* absent or exactly 16 digits, an email that is absent or has both "@" and ".",
\* and a balance >= 0, whether the values came from the constructor or from a
\* setter.
C11_StoredFieldsWellFormed ==
    \A a \in DOMAIN accounts :
        /\ accounts[a]._balance >= 0
        /\ accounts[a]._credit_card_number = None
             \/ SixteenDigits(accounts[a]._credit_card_number)
        /\ accounts[a]._paypal_email = None \/ HasAtAndDot(accounts[a]._paypal_email)

\* C12: verify_credit_card / verify_paypal_email return True exactly when a
\* credential of that kind is stored on the account and equals the supplied
\* string; with no credential stored they return False and raise nothing; they
\* change no balance, credential, history, payment or counter.
C12_VerifyIsEquality ==
    [][last'.op \in {"verify_credit_card", "verify_paypal_email"} =>
        LET stored == IF last'.op = "verify_credit_card"
                      THEN accounts[last'.acc]._credit_card_number
                      ELSE accounts[last'.acc]._paypal_email
        IN  /\ last'.result = IF stored # None /\ stored = last'.str THEN "True" ELSE "False"
            /\ UNCHANGED <<accounts, total_payments, payment>>]_vars

\* an account that stores no email has just been asked to verify one and has
\* answered False
C12_Witness ==
    /\ last.op = "verify_paypal_email"
    /\ accounts[last.acc]._paypal_email = None
    /\ last.result = "False"

\* C13: a history is append-only and mirrors the successful transfers: a
\* transfer (direct or through a payment) that returns True appends exactly one
\* "send" entry to the source's history and one "reciev" entry to the
\* destination's; every other call leaves every history as it was; so earlier
\* entries are never removed or altered and a history is as long as the number
\* of successful transfers its account took part in.
C13_HistoryAppendOnly ==
    [][\A a \in DOMAIN accounts :
        LET h == accounts[a]._history
            moved == last'.transfer_called /\ last'.result = "True"
        IN  accounts'[a]._history =
                IF moved /\ a = last'.acc
                THEN Append(h, <<"send", last'.num, last'.to>>)
                ELSE IF moved /\ a = last'.to
                THEN Append(h, <<"reciev", last'.num, last'.acc>>)
                ELSE h]_vars

\* A001 has sent and then received: two successful transfers, two entries, the
\* older one still first
C13_Witness ==
    /\ Len(accounts["A001"]._history) = 2
    /\ accounts["A001"]._history[1][1] = "send"
    /\ accounts["A001"]._history[2][1] = "reciev"
    /\ Len(accounts["A002"]._history) = 2
    /\ last.result = "True"

\* C16: a payment request is processed once: after process has returned True
\* for a request, a further process call on that request moves no funds; and
\* process never alters the request.
C16_ProcessedOnce ==
    [][last'.op = "process" =>
        /\ payment' = payment
        /\ (last.op = "process" /\ last.result = "True") => accounts' = accounts]_vars

\* C19: a process or transfer call changes nothing outside the balances and the
\* histories of its own source and destination: every other account, the _id and
\* the stored credentials of every account, and the keys of the dict stay as
\* they were, whatever the outcome.
C19_Frame ==
    [][last'.op \in {"process", "transfer"} =>
        /\ DOMAIN accounts' = DOMAIN accounts
        /\ \A a \in DOMAIN accounts :
            /\ accounts'[a]._id = accounts[a]._id
            /\ accounts'[a]._credit_card_number = accounts[a]._credit_card_number
            /\ accounts'[a]._paypal_email = accounts[a]._paypal_email
            /\ a \notin {last'.acc, last'.to} => accounts'[a] = accounts[a]]_vars

\* a payment has just moved funds between A001 and A002 while the dict holds a
\* third account, untouched
C19_Witness ==
    /\ last.op = "process" /\ last.result = "True"
    /\ BystanderId \in DOMAIN accounts
    /\ accounts[BystanderId]._history = <<>>
    /\ Len(accounts[last.acc]._history) > 0

\* C14: process never ends in a raised error: whatever the request, and in
\* particular when its source or its destination identifier is not a key of the
\* accounts dict, process answers True or False.
C14_ProcessNeverRaises ==
    last.op = "process" => last.result \in {"True", "False"}

\* the request of the other variant with the same amount, source and
\* destination and the credential c
Counterpart(p, c) ==
    IF p.kind = "CreditCardPayment"
    THEN PayPalPayment(p.amount, p.from_account_id, p.to_account_id, c)
    ELSE CreditCardPayment(p.amount, p.from_account_id, p.to_account_id, c)

CounterpartCredentials(p) ==
    IF p.kind = "CreditCardPayment" THEN EmailCredentials ELSE CardCredentials

\* the supplied credential is the one the source account stores for its kind
Matches(p) ==
    /\ Resolves(p.from_account_id)
    /\ StoredCredential(accounts[p.from_account_id], p) # None
    /\ StoredCredential(accounts[p.from_account_id], p) = SuppliedCredential(p)

\* C17: the card and the wallet variant differ only in the credential kind and
\* its format rule: whenever process runs on a request, the request of the other
\* variant with the same amount, source and destination and a credential of the
\* same format-validity and the same match status would, from the same accounts,
\* return the same result and leave the same accounts (balances and histories).
C17_VariantsEquivalent ==
    [][last'.op = "process" =>
        \A c \in CounterpartCredentials(payment) :
            LET q == Counterpart(payment, c)
            IN  (WellFormed(q) = WellFormed(payment) /\ Matches(q) = Matches(payment))
                => /\ process(q, accounts).result = last'.result
                   /\ process(q, accounts).accounts = accounts']_vars

\* a wallet payment was refused for a mismatch while a card payment with a
\* well-formed, mismatching card exists for the same source
C17_Witness ==
    /\ last.op = "process" /\ last.result = "False"
    /\ payment.kind = "PayPalPayment"
    /\ WellFormed(payment) /\ ~Matches(payment) /\ Resolves(payment.from_account_id)
    /\ accounts[payment.from_account_id]._balance >= payment.amount
    /\ payment.amount > 0 /\ payment.from_account_id # payment.to_account_id
    /\ Resolves(payment.to_account_id)
    /\ \E c \in CardCredentials :
          LET q == Counterpart(payment, c)
          IN  WellFormed(q) /\ ~Matches(q)

\* C18: the format validators are pure functions of their string:
\* is_valid_card_format answers True exactly for a string of 16 characters that
\* are all digits, is_valid_email_format exactly for a string that holds an "@"
\* and a "."; the answer depends on nothing else, so it is the same on every
\* call whatever happened in between; and a call changes no account, payment or
\* counter.
C18_ValidatorsPure ==
    [][/\ last'.op = "is_valid_card_format" =>
            /\ last'.result = (IF SixteenDigits(last'.str) THEN "True" ELSE "False")
            /\ UNCHANGED <<accounts, total_payments, payment>>
       /\ last'.op = "is_valid_email_format" =>
            /\ last'.result = (IF HasAtAndDot(last'.str) THEN "True" ELSE "False")
            /\ UNCHANGED <<accounts, total_payments, payment>>]_vars

\* a card of 16 characters, one of them a letter, was refused after a payment
\* had moved funds and a setter had replaced A001's card
C18_Witness ==
    /\ last.op = "is_valid_card_format"
    /\ last.str = CardAlpha /\ last.result = "False"
    /\ total_payments > 0
    /\ Len(accounts["A001"]._history) > 0
    /\ accounts["A001"]._credit_card_number = Card2

\* the log so far is the one main() writes: the payments in the order of its list
MainOrder == \A k \in 1..Len(log) : log[k][1] = MainPayments[k]

MainResults == <<"True", "False", "False", "False", "False">>

\* C15: main's scenario: from A001 (1000) and A002 (500), the five payments
\* processed in the order of the list answer True, False, False, False, False;
\* at the end A001 holds 800 and A002 holds 700, each history has exactly one
\* entry, and the counter has grown from 0 to 5.
C15_MainScenario ==
    MainOrder =>
        /\ \A k \in 1..Len(log) : log[k][2] = MainResults[k]
        /\ Len(log) = Len(MainPayments) =>
              /\ accounts["A001"]._balance = 800
              /\ accounts["A002"]._balance = 700
              /\ Len(accounts["A001"]._history) = 1
              /\ Len(accounts["A002"]._history) = 1
              /\ total_payments = 5

\* main's loop has ended, in main's order
C15_Witness ==
    /\ MainOrder
    /\ Len(log) = Len(MainPayments)
    /\ last.op = "process" /\ last.str = EmailInvalid

====
